---- MODULE Spec2Model ----
(***************************************************************************)
(* Torboxed: the job-lifecycle worker (torboxed/downloader.py) together    *)
(* with the HTTP endpoints that create, cancel and delete jobs             *)
(* (torboxed/main.py) and the job store (torboxed/db.py).                  *)
(*                                                                         *)
(* The worker is one asyncio task.  Every action below is the code that    *)
(* runs between two suspension points (await) of that task, or one whole   *)
(* endpoint handler: the store sessions of the source are synchronous, so  *)
(* nothing interleaves inside such a block.                                *)
(***************************************************************************)
EXTENDS Integers, Sequences, FiniteSets, TLC

\* ------------------------------------------------------------------ bounds
\* Jobs created over a run (uploads and intake files together).
MaxCreated == 2
\* Process crashes (kill + restart) over a run.
MaxCrashes == 1
\* Poll attempts of one pass: range(60) in the source, scaled down.
PollAttempts == 2
\* Chunks of one streamed artifact (content-length / 256 KiB), scaled down.
NumChunks == 2
\* settings.torbox_rate_limit_per_minute (default 10), scaled down.
RateLimit == 2
\* The limiter's 60 second period, in clock ticks of the model.
WindowTicks == 2
\* Largest configured settings.max_concurrent_local_downloads tried.
MaxConcCfg == 1

Ids == 1..MaxCreated
\* Progress figures a not-ready status reply may carry (None is separate).
ReportedProgress == {3, 100}
\* What client.get_status can answer (TorboxStatusResult, or an exception).
Replies == {[kind |-> k, p |-> 0] : k \in {"ready", "raise", "none"}}
           \cup {[kind |-> "progress", p |-> q] : q \in ReportedProgress}

Max(a, b) == IF a >= b THEN a ELSE b
Min(a, b) == IF a <= b THEN a ELSE b
MinOf(S) == CHOOSE x \in S : \A y \in S : x <= y
MaxOf(S) == CHOOSE x \in S : \A y \in S : x >= y

VARIABLES
    rows,             \* downloads table: id -> row, status "absent" = no row
    uploads,          \* ids whose upload_path:{id} entry and file exist
    blackhole,        \* where the dropped job-description file is: "none",
                      \* "inbox" (intake directory), "processed" (_processed)
                      \* or "unreadable" (intake directory, read_bytes raises)
    created,          \* jobs created so far (bounds the run)
    max_conc,         \* settings.max_concurrent_local_downloads
    pc,               \* where the worker task is suspended
    cur,              \* download_id the worker is processing (0: none)
    item_ref,         \* item.torbox_ref as read at the start of the poll phase
    attempt,          \* poll attempts done in this pass
    got,              \* chunks written by the current transfer
    total,            \* content-length known for the current transfer
    permits,          \* value of _local_dl_sem
    holders,          \* download ids inside "async with self._local_dl_sem"
    level,            \* limiter bucket level, in units of 1/WindowTicks call
    window,           \* calls started in each of the last WindowTicks ticks
    provSeq,          \* submissions the provider has accepted (next ref - 1)
    crashes,          \* crashes so far
    hist,             \* history of the pass in progress: cancel seen by the running
                      \* transfer, chunks written after it, status the submission
                      \* phase found when run on its own, job whose terminal status
                      \* the error handler kept, job whose poll phase stopped at the
                      \* re-read, row deleted under the worker; the jobs the
                      \* scanner has made of the dropped file; and, of the last
                      \* completion: configured notifications left out after a
                      \* failed one, whether one was attempted after a failed
                      \* one, whether the provider delete was due, and the
                      \* delete instructions sent; the highest id any job has
                      \* been given so far; and the jobs whose temporary
                      \* ".part" file is in the download folder
    arg,              \* input of an operation run on its own (the directory
                      \* entry given to scan_directory, the names given to the
                      \* transfer); <<>> while the whole program runs
    res               \* what that operation produced; <<>> likewise
vars == <<rows, uploads, blackhole, created, max_conc,
          pc, cur, item_ref, attempt, got, total, permits, holders, level,
          window, provSeq, crashes, hist, arg, res>>

store == <<rows, uploads, blackhole, created>>
config == <<max_conc>>
local == <<cur, item_ref, attempt, got, total>>
gate == <<permits, holders>>
limiter == <<level, window>>
aside == <<arg, res>>

\* ------------------------------------------------------------------ store
Absent == [status |-> "absent", progress |-> 0, speed |-> FALSE, ref |-> 0,
           url |-> FALSE, local_path |-> FALSE, error |-> FALSE]
\* Download(..., status="queued", progress=0)
NewRow == [Absent EXCEPT !.status = "queued"]

Exists(r, i) == r[i].status # "absent"

\* INTEGER PRIMARY KEY on SQLite without sqlite_autoincrement: the new rowid
\* is one more than the largest rowid now in the table.
NewId(r) ==
    LET used == {i \in Ids : Exists(r, i)}
    IN IF used = {} THEN 1 ELSE MaxOf(used) + 1

NoHist == [cancelled |-> 0, late |-> 0, entered |-> "none", kept |-> 0,
           stopped |-> 0, deleted |-> FALSE, ingested |-> 0,
           skipped |-> {}, followed |-> FALSE, asked |-> FALSE, calls |-> 0,
           issued |-> 0, parts |-> {}]
\* history: the handler ran on row i and found it completed or cancelled
Kept(h, r, i) ==
    IF Exists(r, i) /\ r[i].status \in {"completed", "cancelled"}
    THEN [h EXCEPT !.kept = i] ELSE h

\* ------------------------------------------------- worker: store sessions
\* mutant of Select: the eligible rows are taken in descending id order
SelectHighest(r) ==
    LET eligible == {i \in Ids : r[i].status \in {"queued", "submitted"}}
    IN IF eligible = {} THEN 0 ELSE MaxOf(eligible)

\* _process_one: db.query(...).filter(status in (queued, submitted))
\*               .order_by(Download.id).first()   (0: no item)
Select(r) ==
    LET eligible == {i \in Ids : r[i].status \in {"queued", "submitted"}}
    IN IF eligible = {} THEN 0 ELSE MinOf(eligible)

\* _process_one: move "queued" -> "submitting" in the selecting session
Claim(r, i) ==
    IF r[i].status = "queued" THEN [r EXCEPT ![i].status = "submitting"] ELSE r

\* mutant of Handler: the re-read status is not tested for "cancelled"
HandlerNoCancelCheck(r, i) ==
    IF Exists(r, i) /\ r[i].status \notin {"completed"}
    THEN [r EXCEPT ![i].status = "failed", ![i].error = TRUE]
    ELSE r

\* mutant of Handler: the re-read status is not tested for "completed"
HandlerNoCompletedCheck(r, i) ==
    IF Exists(r, i) /\ r[i].status \notin {"cancelled"}
    THEN [r EXCEPT ![i].status = "failed", ![i].error = TRUE]
    ELSE r

\* _process_one: except Exception -> re-read, write failed unless
\* completed/cancelled (or the row is gone)
Handler(r, i) ==
    IF Exists(r, i) /\ r[i].status \notin {"completed", "cancelled"}
    THEN [r EXCEPT ![i].status = "failed", ![i].error = TRUE]
    ELSE r

\* mutant of EsRead: the api key is not tested
EsReadNoKeyCheck(r, i, key, ups) ==
    IF ~Exists(r, i) \/ r[i].status \in {"completed", "cancelled"}
    THEN [out |-> "return", rows |-> r]
    ELSE IF r[i].ref # 0
    THEN [out |-> "return",
          rows |-> IF r[i].status = "submitting"
                   THEN [r EXCEPT ![i].status = "submitted"] ELSE r]
    ELSE IF i \notin ups THEN [out |-> "raise", rows |-> r]
    ELSE [out |-> "submit", rows |-> r]

\* mutant of EsRead: an existing torbox_ref does not end the phase
EsReadNoRefCheck(r, i, key, ups) ==
    IF ~Exists(r, i) \/ r[i].status \in {"completed", "cancelled"}
    THEN [out |-> "return", rows |-> r]
    ELSE IF ~key THEN [out |-> "raise", rows |-> r]
    ELSE IF i \notin ups THEN [out |-> "raise", rows |-> r]
    ELSE [out |-> "submit", rows |-> r]

\* _ensure_submitted, first session: what the phase does before any await.
\* out: "return" (nothing to submit), "raise", "submit" (go on to the call)
EsRead(r, i, key, ups) ==
    IF ~Exists(r, i) \/ r[i].status \in {"completed", "cancelled"}
    THEN [out |-> "return", rows |-> r]
    ELSE IF r[i].ref # 0
    THEN [out |-> "return",
          rows |-> IF r[i].status = "submitting"
                   THEN [r EXCEPT ![i].status = "submitted"] ELSE r]
    ELSE IF ~key THEN [out |-> "raise", rows |-> r]
    ELSE IF i \notin ups THEN [out |-> "raise", rows |-> r]
    ELSE [out |-> "submit", rows |-> r]

\* mutant of EsWrite: the reference is recorded, the status is not advanced
EsWriteNoStatus(r, i, newref) ==
    IF ~Exists(r, i) \/ r[i].status \in {"completed", "cancelled"}
    THEN r
    ELSE [r EXCEPT ![i].ref = newref, ![i].progress = Max(r[i].progress, 5)]

\* _ensure_submitted, last session: record the reference
EsWrite(r, i, newref) ==
    IF ~Exists(r, i) \/ r[i].status \in {"completed", "cancelled"}
    THEN r
    ELSE [r EXCEPT ![i].ref = newref, ![i].status = "submitted",
                   ![i].progress = Max(r[i].progress, 5)]

\* _ensure_downloaded, first session.  out: "return", "raise", "poll"
EdRead(r, i, key) ==
    IF ~Exists(r, i) \/ r[i].status \in {"completed", "cancelled"}
    THEN [out |-> "return", rows |-> r]
    ELSE IF r[i].url /\ r[i].local_path
    THEN [out |-> "return",
          rows |-> [r EXCEPT ![i].status = "completed", ![i].progress = 100]]
    ELSE IF ~key THEN [out |-> "raise", rows |-> r]
    ELSE IF r[i].ref = 0 THEN [out |-> "return", rows |-> r]
    ELSE [out |-> "poll", rows |-> r]

\* mutant of PollStop: only a vanished row ends the poll phase
PollStopNoCancel(r, i) == ~Exists(r, i)

\* poll loop: "Stop early if user cancelled" (TRUE: return)
PollStop(r, i) == ~Exists(r, i) \/ r[i].status = "cancelled"

\* mutant of BudgetLeft: the loop counts from zero through the limit
BudgetLeftInclusive(a) == a + 1 <= PollAttempts

\* poll loop: "for _ in range(60)": after iteration number a (from 0)
\* another one follows while a + 1 is still in the range
BudgetLeft(a) == a + 1 < PollAttempts

\* mutant of PollProgress: the reported figure is not capped
PollProgressNoCap(r, i, p) ==
    IF Exists(r, i) /\ r[i].status \in {"submitted", "downloading"}
    THEN [r EXCEPT ![i].progress = Max(r[i].progress, p)]
    ELSE r

\* mutant of PollProgress: the reported figure replaces the stored one
PollProgressNoMax(r, i, p) ==
    IF Exists(r, i) /\ r[i].status \in {"submitted", "downloading"}
    THEN [r EXCEPT ![i].progress = Min(95, p)]
    ELSE r

\* poll loop: progress update of a not-ready reply carrying progress p
PollProgress(r, i, p) ==
    IF Exists(r, i) /\ r[i].status \in {"submitted", "downloading"}
    THEN [r EXCEPT ![i].progress = Min(95, Max(r[i].progress, p))]
    ELSE r

\* _ensure_downloaded: session that records the URL (TRUE: return)
DlStop(r, i) == ~Exists(r, i) \/ r[i].status \in {"completed", "cancelled"}
DlWrite(r, i) ==
    [r EXCEPT ![i].url = TRUE, ![i].status = "downloading",
              ![i].progress = Max(r[i].progress, 10)]

\* _download_stream: open(tmp_path, "wb") once the GET is answered; a
\* ".part" file left by an earlier transfer is replaced
OpenPart(parts, i) == parts \cup {i}

\* mutant of AbortPart: the partial file is unlinked on the way out
AbortPartRemoves(parts, i) == parts \ {i}

\* _download_stream: an exception in the chunk loop leaves the with blocks;
\* nothing unlinks tmp_path
AbortPart(parts, i) == parts

\* _download_stream: tmp_path.rename(out_path)
RenamePart(parts, i) == parts \ {i}

\* _download_stream: per-chunk check (TRUE: raise RuntimeError("Cancelled"))
ChunkStop(r, i) == ~Exists(r, i) \/ r[i].status = "cancelled"

\* _download_stream: pct = 10 + int((got / total) * 89)
Pct(g) == 10 + (g * 89) \div NumChunks

\* _download_stream: throttled progress/speed write after a chunk
\* (known: content-length > 0, else pct is None)
StreamProgress(r, i, g, known) ==
    IF Exists(r, i) /\ r[i].status = "downloading"
    THEN [r EXCEPT ![i].progress = IF known THEN Min(99, Max(r[i].progress, Pct(g)))
                                    ELSE r[i].progress,
                   ![i].speed = TRUE]
    ELSE r

\* _download_stream: "Clear speed after completion"
ClearSpeed(r, i) ==
    IF Exists(r, i) THEN [r EXCEPT ![i].speed = FALSE] ELSE r

\* _ensure_downloaded: completion session (TRUE: return without writing)
DoneStop(r, i) == ~Exists(r, i) \/ r[i].status \in {"completed", "cancelled"}
\* mutant of DoneWrite: the final path is not stored with the status
DoneWriteNoPath(r, i) ==
    [r EXCEPT ![i].status = "completed", ![i].progress = 100]

\* _ensure_downloaded: completion session, the write
DoneWrite(r, i) ==
    [r EXCEPT ![i].local_path = TRUE, ![i].status = "completed",
              ![i].progress = 100]

\* ------------------------------------------------- gate and limiter
\* mutant of SemSize: the configured value is used as it is
SemSizeNoFloor(c) == c

\* asyncio.Semaphore(max(1, settings.max_concurrent_local_downloads))
SemSize(c) == Max(1, c)

\* AsyncLimiter(rate, 60) is a leaky bucket of capacity `rate` that drains
\* `rate` per period: a call fits when the level plus one call does not
\* exceed the capacity.  Levels are kept in units of 1/WindowTicks call.
HasCapacity(l) == l + WindowTicks <= RateLimit * WindowTicks
\* acquire(): one call enters the bucket and the current tick's window slot
Acquired ==
    /\ level' = level + WindowTicks
    /\ window' = [window EXCEPT ![1] = @ + 1]
WindowCalls == LET S[k \in 0..WindowTicks] ==
                       IF k = 0 THEN 0 ELSE S[k - 1] + window[k]
               IN S[WindowTicks]
NoCalls == [k \in 1..WindowTicks |-> 0]

\* ------------------------------------------------------------------ Init
\* DownloadWorker.__init__ and an empty store.  The settings the worker
\* re-reads from the store at every use (torbox_api_key,
\* delete_on_complete_provider) can be rewritten by PUT /api/settings at any
\* time: each read takes either value, as a parameter of the action reading.
Init ==
    /\ rows = [i \in Ids |-> Absent]
    /\ uploads = {}
    /\ blackhole = "none"
    /\ created = 0
    /\ max_conc \in 0..MaxConcCfg
    /\ pc = "idle"
    /\ cur = 0 /\ item_ref = 0 /\ attempt = 0 /\ got = 0 /\ total = FALSE
    /\ permits = SemSize(max_conc)
    /\ holders = {}
    /\ level = 0
    /\ window = NoCalls
    /\ provSeq = 0
    /\ crashes = 0
    /\ hist = NoHist
    /\ arg = <<>> /\ res = <<>>

\* ------------------------------------------------------- endpoints, world
\* POST /api/downloads/upload
Upload ==
    /\ created < MaxCreated
    /\ LET id == NewId(rows)
       IN /\ rows' = [rows EXCEPT ![id] = NewRow]
          /\ uploads' = uploads \cup {id}
    /\ created' = created + 1
    /\ hist' = [hist EXCEPT !.issued = Max(@, NewId(rows))]
    /\ UNCHANGED <<blackhole, config, aside, pc, local, gate, limiter, provSeq, crashes>>

\* a .torrent/.nzb file is dropped into the intake directory
\* (the scanner makes up to two rows of one file, see ScanPass: both count)
DropFile(rd) ==
    /\ created + 2 <= MaxCreated
    /\ blackhole = "none"
    /\ blackhole' = IF rd THEN "inbox" ELSE "unreadable"
    /\ created' = created + 2
    /\ UNCHANGED <<rows, uploads, config, aside, pc, local, gate, limiter, provSeq, crashes, hist>>

\* mutant of CancelWrite: a finished job is cancelled like any other
CancelWriteAny(r, j) == [r EXCEPT ![j].status = "cancelled"]

\* cancel_download: completed and failed jobs are left as they are, any
\* other gets status cancelled (and nothing else is written)
CancelWrite(r, j) ==
    IF r[j].status \in {"completed", "failed"} THEN r
    ELSE [r EXCEPT ![j].status = "cancelled"]

\* POST /api/downloads/{id}/cancel
Cancel(j) ==
    /\ Exists(rows, j)
    /\ rows' = CancelWrite(rows, j)
    /\ hist' = IF j = cur /\ pc \in {"open", "stream"} /\ rows[j].status = "downloading"
               THEN [hist EXCEPT !.cancelled = j] ELSE hist
    /\ UNCHANGED <<uploads, blackhole, created, config, aside, pc, local, gate, limiter,
                   provSeq, crashes>>

\* DELETE /api/downloads/{id}
Delete(j) ==
    /\ Exists(rows, j)
    /\ rows' = [rows EXCEPT ![j] = Absent]
    /\ uploads' = uploads \ {j}
    /\ hist' = IF j = cur /\ pc # "idle" THEN [hist EXCEPT !.deleted = TRUE] ELSE hist
    /\ UNCHANGED <<blackhole, created, config, aside, pc, local, gate, limiter, provSeq,
                   crashes>>

\* the process is killed and started again: the store survives, the task,
\* the semaphore and the limiter are rebuilt by DownloadWorker.__init__
Crash ==
    /\ crashes < MaxCrashes
    /\ crashes' = crashes + 1
    /\ pc' = "idle"
    /\ cur' = 0 /\ item_ref' = 0 /\ attempt' = 0 /\ got' = 0 /\ total' = FALSE
    /\ permits' = SemSize(max_conc)
    /\ holders' = {}
    /\ level' = 0
    /\ window' = NoCalls
    /\ hist' = [NoHist EXCEPT !.ingested = hist.ingested, !.issued = hist.issued,
                              !.parts = hist.parts]
    /\ UNCHANGED <<store, config, aside, provSeq>>

\* a whole limiter period (or more) passes without a call
Elapse ==
    /\ level' = 0
    /\ window' = NoCalls
    /\ UNCHANGED <<store, config, aside, pc, local, gate, provSeq, crashes, hist>>

\* one clock tick passes: the bucket drains RateLimit calls per period
Advance ==
    /\ level' = Max(0, level - RateLimit)
    /\ window' = [k \in 1..WindowTicks |-> IF k = 1 THEN 0 ELSE window[k - 1]]
    /\ UNCHANGED <<store, config, aside, pc, local, gate, provSeq, crashes, hist>>

\* ------------------------------------------------------------ the worker
GoIdle ==
    /\ pc' = "idle"
    /\ cur' = 0 /\ item_ref' = 0 /\ attempt' = 0 /\ got' = 0 /\ total' = FALSE

\* "async with self._local_dl_sem" left, normally or by an exception
Release ==
    /\ permits' = permits + 1
    /\ holders' = holders \ {cur}

\* _ensure_downloaded from its first session to the first await of the
\* poll loop, on store contents r
StartEnsureDownloaded(r, i, key) ==
    LET ed == EdRead(r, i, key)
    IN IF ed.out = "raise" THEN rows' = Handler(ed.rows, i) /\ GoIdle
       ELSE IF ed.out = "return" THEN rows' = ed.rows /\ GoIdle
       ELSE /\ rows' = ed.rows
            /\ pc' = "poll"
            /\ cur' = i
            /\ item_ref' = ed.rows[i].ref
            /\ attempt' = 0 /\ got' = 0 /\ total' = FALSE

\* scan_directory, one file: Download(status="queued", progress=0), its
\* bytes written under uploads and recorded as upload_path:{id}
Ingest(st) ==
    [st EXCEPT !.rows = [st.rows EXCEPT ![NewId(st.rows)] = NewRow],
               !.uploads = st.uploads \cup {NewId(st.rows)},
               !.n = st.n + 1]

\* _scan_blackhole, one pass over the intake tree.  scan_directory descends
\* into every subdirectory, _processed included.
\*   file in the intake directory: a job is made; entry.rename moves the file
\*     to _processed (mv) or fails and entry.unlink removes it.  After the
\*     move, d.id is read from an instance that the committed, closed
\*     session has expired: that raises, and entry.unlink finds nothing
\*     under the old path.  When iterdir yields _processed after the file
\*     (later), the same pass goes on to the moved file as below.
\*   file in _processed: a job is made; the rename onto itself succeeds, d.id
\*     raises, and entry.unlink removes the file.
\*   file whose read_bytes raises: "continue", the file stays where it is.
ScanPass(r, ups, bh, mv, later) ==
    LET st0 == [rows |-> r, uploads |-> ups, blackhole |-> bh, n |-> 0]
        reingest(st) == [Ingest(st) EXCEPT !.blackhole = "none"]
    IN CASE bh = "inbox" ->
              LET st1 == [Ingest(st0) EXCEPT !.blackhole =
                                      IF mv THEN "processed" ELSE "none"]
              IN IF mv /\ later THEN reingest(st1) ELSE st1
         [] bh = "processed" -> reingest(st0)
         [] OTHER -> st0

\* _run_loop: _scan_blackhole, then _process_one up to its first await
Tick(key, mv, later) ==
    /\ pc = "idle"
    /\ LET sc == ScanPass(rows, uploads, blackhole, mv, later)
           r0 == sc.rows
           u0 == sc.uploads
           i == Select(r0)
       IN /\ uploads' = u0
          /\ blackhole' = sc.blackhole
          /\ hist' = [hist EXCEPT !.kept = 0, !.stopped = 0, !.deleted = FALSE,
                                  !.ingested = @ + sc.n,
                                  !.skipped = {}, !.followed = FALSE,
                                  !.asked = FALSE, !.calls = 0,
                                  !.issued = IF sc.n = 0 THEN @
                                             ELSE Max(@, NewId(rows) + sc.n - 1)]
          /\ IF i = 0 THEN rows' = r0 /\ GoIdle
             ELSE LET es == EsRead(Claim(r0, i), i, key, u0)
                  IN IF es.out = "submit"
                     THEN /\ rows' = es.rows
                          /\ pc' = "submit"
                          /\ cur' = i
                          /\ UNCHANGED <<item_ref, attempt, got, total>>
                     ELSE IF es.out = "raise"
                     THEN rows' = Handler(es.rows, i) /\ GoIdle
                     ELSE StartEnsureDownloaded(es.rows, i, key)
    /\ UNCHANGED <<created, config, aside, gate, limiter, provSeq, crashes>>

\* _ensure_submitted: limiter, client.submit_file, then the recording
\* session and _ensure_downloaded up to its first await
SubmitCall(ok, key) ==
    /\ pc = "submit"
    /\ HasCapacity(level)
    /\ Acquired
    /\ IF ok
       THEN /\ provSeq' = provSeq + 1
            /\ StartEnsureDownloaded(EsWrite(rows, cur, provSeq + 1), cur, key)
       ELSE /\ provSeq' = provSeq
            /\ rows' = Handler(rows, cur)
            /\ GoIdle
    /\ hist' = IF ok THEN hist ELSE Kept(hist, rows, cur)
    /\ UNCHANGED <<uploads, blackhole, created, config, aside, gate, crashes>>

\* poll loop: limiter, client.get_status, and the code up to the next await.
\* reply.kind: "ready" (is_ready with a download_url), "raise", "none" (not
\* ready, no progress) or "progress" (not ready, progress figure reply.p)
PollCall(reply) ==
    /\ pc = "poll"
    /\ HasCapacity(level)
    /\ Acquired
    /\ IF reply.kind = "raise" THEN rows' = Handler(rows, cur) /\ GoIdle
       ELSE IF reply.kind = "ready"
       THEN IF DlStop(rows, cur) THEN rows' = rows /\ GoIdle
            ELSE /\ rows' = DlWrite(rows, cur)
                 /\ pc' = "acquire"
                 /\ UNCHANGED local
       ELSE /\ rows' = IF reply.kind = "none" THEN rows
                       ELSE PollProgress(rows, cur, reply.p)
            /\ pc' = "sleep"
            /\ UNCHANGED local
    /\ hist' = IF reply.kind = "raise" THEN Kept(hist, rows, cur) ELSE hist
    /\ UNCHANGED <<uploads, blackhole, created, config, aside, gate, provSeq, crashes>>

\* poll loop: asyncio.sleep(2) is over; next iteration or budget exhausted
PollSleep ==
    /\ pc = "sleep"
    /\ IF ~BudgetLeft(attempt) \/ PollStop(rows, cur)
       THEN GoIdle
       ELSE /\ pc' = "poll"
            /\ attempt' = attempt + 1
            /\ UNCHANGED <<cur, item_ref, got, total>>
    /\ hist' = IF PollStop(rows, cur) THEN [hist EXCEPT !.stopped = cur] ELSE hist
    /\ UNCHANGED <<store, config, aside, gate, limiter, provSeq, crashes>>

\* "async with self._local_dl_sem": a slot is taken when one is free
Acquire ==
    /\ pc = "acquire"
    /\ permits > 0
    /\ permits' = permits - 1
    /\ holders' = holders \cup {cur}
    /\ pc' = "open"
    /\ hist' = [hist EXCEPT !.cancelled = 0, !.late = 0]
    /\ UNCHANGED <<store, config, aside, local, limiter, provSeq, crashes>>

\* mkdir, _get_download_filename, and the GET of _download_stream answered
\* (ok) or failed (raise_for_status, network, disk)
Open(ok, known) ==
    /\ pc = "open"
    /\ IF ok
       THEN /\ pc' = "stream"
            /\ got' = 0
            /\ total' = known
            /\ UNCHANGED <<rows, cur, item_ref, attempt, gate>>
       ELSE /\ rows' = Handler(rows, cur)
            /\ Release
            /\ GoIdle
    /\ hist' = IF ok THEN [hist EXCEPT !.parts = OpenPart(@, cur)]
               ELSE Kept(hist, rows, cur)
    /\ UNCHANGED <<uploads, blackhole, created, config, aside, limiter, provSeq, crashes>>

\* _download_stream: the next chunk arrives (or the transfer breaks): the
\* per-chunk status check, the write and the throttled progress update
Chunk(ok, upd) ==
    /\ pc = "stream"
    /\ got < NumChunks
    /\ IF ~ok \/ ChunkStop(rows, cur)
       THEN /\ rows' = Handler(rows, cur)
            /\ Release
            /\ GoIdle
            /\ hist' = [Kept(hist, rows, cur) EXCEPT !.parts = AbortPart(@, cur)]
       ELSE /\ got' = got + 1
            /\ rows' = IF upd THEN StreamProgress(rows, cur, got + 1, total) ELSE rows
            /\ hist' = IF hist.cancelled # 0 THEN [hist EXCEPT !.late = @ + 1] ELSE hist
            /\ UNCHANGED <<pc, cur, item_ref, attempt, total, gate>>
    /\ UNCHANGED <<uploads, blackhole, created, config, aside, limiter, provSeq, crashes>>

\* _download_stream after the last chunk: rename, clear speed, unpack;
\* then the slot is released and the completion session runs
Finish ==
    /\ pc = "stream"
    /\ got = NumChunks
    /\ Release
    /\ LET r1 == ClearSpeed(rows, cur)
       IN IF DoneStop(r1, cur)
          THEN rows' = r1 /\ GoIdle
          ELSE /\ rows' = DoneWrite(r1, cur)
               /\ pc' = "notify"
               /\ UNCHANGED local
    /\ hist' = [hist EXCEPT !.parts = RenamePart(@, cur)]
    /\ UNCHANGED <<uploads, blackhole, created, config, aside, limiter, provSeq, crashes>>

\* _notify_arrs: the three applications in the order of their try blocks
ArrOrder == <<"sonarr", "radarr", "whisparr">>
Arrs == {ArrOrder[k] : k \in DOMAIN ArrOrder}
\* the configured applications that come after a failed one
AfterFailure(cfg, bad) ==
    {ArrOrder[k] : k \in {n \in DOMAIN ArrOrder :
                            /\ ArrOrder[n] \in cfg
                            /\ \E m \in 1..(n - 1) : ArrOrder[m] \in bad}}

\* mutant of Attempted: one try block around the three calls
AttemptedUntilFailure(cfg, bad) == cfg \ AfterFailure(cfg, bad)

\* _notify_arrs: each call sits in its own try/except and is made when its
\* url and key are set (cfg), whatever the calls before it did (bad: the
\* calls that raise)
Attempted(cfg, bad) == {a \in Arrs : a \in cfg}

\* mutant of CleanupKeys: the entries are left in the settings store
CleanupKeysKept(ups, i) == ups

\* _cleanup_after_complete: upload_path:{id} and source_path:{id} are
\* deleted and the deletion committed (source_path:{id} is never recorded:
\* the scanner reads d.id for it from an expired, detached instance)
CleanupKeys(ups, i) == ups \ {i}

\* _cleanup_after_complete, "if delete_provider and api_key and d.torbox_ref":
\* d was loaded in the session that db.commit() has expired and the with
\* block has closed, so when the first two operands are truthy the read of
\* d.torbox_ref raises before any client call is made.
ProviderDelete(dp, key) ==
    IF dp /\ key THEN [out |-> "raise", calls |-> 0]
    ELSE [out |-> "return", calls |-> 0]

\* _notify_arrs (cfg: applications configured, bad: those whose call fails)
\* and _cleanup_after_complete (dp: delete_on_complete_provider, key:
\* torbox_api_key): nothing is done when the row is gone; an error of the
\* cleanup reaches _process_one's handler.
Notify(dp, key, cfg, bad) ==
    /\ pc = "notify"
    /\ LET pd == ProviderDelete(dp, key)
           there == Exists(rows, cur)
       IN /\ uploads' = IF there THEN CleanupKeys(uploads, cur) ELSE uploads
          /\ rows' = IF there /\ pd.out = "raise" THEN Handler(rows, cur) ELSE rows
          /\ hist' = [(IF pd.out = "raise" THEN Kept(hist, rows, cur) ELSE hist)
                        EXCEPT !.skipped = AfterFailure(cfg, bad) \ Attempted(cfg, bad),
                               !.followed = (AfterFailure(cfg, bad) \cap Attempted(cfg, bad)) # {},
                               !.asked = /\ there /\ dp /\ key
                                         /\ rows[cur].status = "completed"
                                         /\ rows[cur].ref # 0,
                               !.calls = IF there THEN pd.calls ELSE 0]
    /\ GoIdle
    /\ UNCHANGED <<blackhole, created, config, aside, gate, limiter, provSeq, crashes>>

Worker ==
    \/ \E key, mv, later \in BOOLEAN : Tick(key, mv, later)
    \/ \E ok, key \in BOOLEAN : SubmitCall(ok, key)
    \/ \E reply \in Replies : PollCall(reply)
    \/ PollSleep
    \/ Acquire
    \/ \E ok, known \in BOOLEAN : Open(ok, known)
    \/ \E ok, upd \in BOOLEAN : Chunk(ok, upd)
    \/ Finish
    \/ \E dp, key \in BOOLEAN :
          \E cfg \in SUBSET Arrs : \E bad \in SUBSET cfg : Notify(dp, key, cfg, bad)

Environment ==
    \/ Upload
    \/ \E rd \in BOOLEAN : DropFile(rd)
    \/ \E j \in Ids : Cancel(j)
    \/ \E j \in Ids : Delete(j)

Next == Worker \/ Environment \/ Crash \/ Elapse

\* ------------------------------------- the submission phase on its own
\* rows as _process_one hands them to _ensure_submitted: there is no await
\* between the selecting session and the phase's first session, so the row
\* exists and is submitting or submitted; torbox_ref and progress are free
MaxRef == 2
InitProgress == {0, 5}
PhaseRows ==
    {Absent} \cup
    {[Absent EXCEPT !.status = s, !.ref = f, !.progress = p] :
        s \in {"submitting", "submitted"}, f \in 0..MaxRef, p \in InitProgress}

InitSubmit ==
    /\ rows \in [Ids -> PhaseRows]
    /\ uploads \in SUBSET Ids
    /\ blackhole = "none"
    /\ created = 0
    /\ max_conc = MaxConcCfg
    /\ pc = "idle"
    /\ cur = 0 /\ item_ref = 0 /\ attempt = 0 /\ got = 0 /\ total = FALSE
    /\ permits = SemSize(max_conc)
    /\ holders = {}
    /\ level = 0
    /\ window = NoCalls
    /\ provSeq = 0
    /\ crashes = 0
    /\ hist = NoHist
    /\ arg = <<>> /\ res = <<>>

\* _ensure_submitted(i) from entry to exit, and _process_one's handler when
\* it raises; pc is "poll" when the phase returned (the caller goes on to
\* _ensure_downloaded), "idle" when it raised
EnsureSubmitted(i, ok, key) ==
    /\ rows[i].status \in {"submitting", "submitted"}
    /\ LET es == EsRead(rows, i, key, uploads)
       IN CASE es.out = "return" ->
                 /\ rows' = es.rows
                 /\ pc' = "poll"
                 /\ UNCHANGED <<provSeq, limiter>>
            [] es.out = "raise" ->
                 /\ rows' = Handler(es.rows, i)
                 /\ pc' = "idle"
                 /\ UNCHANGED <<provSeq, limiter>>
            [] OTHER ->
                 /\ HasCapacity(level)
                 /\ Acquired
                 /\ IF ok
                    THEN /\ provSeq' = provSeq + 1
                         /\ rows' = EsWrite(es.rows, i, MaxRef + provSeq + 1)
                         /\ pc' = "poll"
                    ELSE /\ provSeq' = provSeq
                         /\ rows' = Handler(es.rows, i)
                         /\ pc' = "idle"
    /\ cur' = i
    /\ hist' = [hist EXCEPT !.entered = rows[i].status]
    /\ UNCHANGED <<uploads, blackhole, created, config, aside, item_ref, attempt,
                   got, total, gate, crashes>>

NextSubmit ==
    \/ \E i \in Ids, ok \in BOOLEAN, key \in BOOLEAN : EnsureSubmitted(i, ok, key)
    \/ Elapse
SpecSubmit == InitSubmit /\ [][NextSubmit]_vars

\* ------------------------------------------- scan_directory on one entry
\* Directory levels between the intake root and the file.
MaxDepth == 2
\* names a directory on the way can have, and str.lower() of each
DirNames == {"radarr", "Sonarr", "whisparr", "tv"}
Lower(n) == IF n = "Sonarr" THEN "sonarr"
            ELSE IF n = ".TORRENT" THEN ".torrent"
            ELSE n
\* entry.suffix of the files tried
Suffixes == {".torrent", ".TORRENT", ".nzb", ".txt", ""}
RelPaths == UNION {[1..k -> DirNames] : k \in 0..MaxDepth}
\* a directory entry: is_file(), name.startswith("."), suffix, the parts of
\* entry.parent.relative_to(base_path), and whether read_bytes succeeds
Entries == [regular : BOOLEAN, dot : BOOLEAN, suffix : Suffixes,
            parts : RelPaths, readable : BOOLEAN]

\* mutant of Accepts: dotfiles are not skipped
AcceptsDotfiles(e) ==
    /\ e.regular
    /\ Lower(e.suffix) \in {".torrent", ".nzb"}
    /\ e.readable

\* scan_directory: the tests an entry passes before a Download is made
Accepts(e) ==
    /\ e.regular
    /\ ~e.dot
    /\ Lower(e.suffix) \in {".torrent", ".nzb"}
    /\ e.readable

\* source_type = "torrent" if ext == ".torrent" else "nzb"
SourceType(e) == IF Lower(e.suffix) = ".torrent" THEN "torrent" ELSE "nzb"

\* for part in rel_path.parts: the first part, from the intake root down,
\* whose lower-case form is an Arr name; "none" for None
RECURSIVE CategoryFrom(_, _)
CategoryFrom(parts, k) ==
    IF k > Len(parts) THEN "none"
    ELSE IF Lower(parts[k]) \in {"radarr", "sonarr", "whisparr"}
    THEN Lower(parts[k])
    ELSE CategoryFrom(parts, k + 1)
Category(parts) == CategoryFrom(parts, 1)

NoDownload == [made |-> FALSE, id |-> 0, source_type |-> "none", category |-> "none"]

InitIntake ==
    /\ rows = [i \in Ids |-> Absent]
    /\ uploads = {}
    /\ blackhole = "inbox"
    /\ created = 0
    /\ max_conc = MaxConcCfg
    /\ pc = "idle"
    /\ cur = 0 /\ item_ref = 0 /\ attempt = 0 /\ got = 0 /\ total = FALSE
    /\ permits = SemSize(max_conc)
    /\ holders = {}
    /\ level = 0
    /\ window = NoCalls
    /\ provSeq = 0
    /\ crashes = 0
    /\ hist = NoHist
    /\ arg \in Entries
    /\ res = NoDownload

\* scan_directory reaches the entry: a Download is made of it, or it is
\* passed over
ScanEntry ==
    /\ blackhole = "inbox"
    /\ blackhole' = "processed"
    /\ IF Accepts(arg)
       THEN LET st == Ingest([rows |-> rows, uploads |-> uploads, n |-> 0])
            IN /\ rows' = st.rows
               /\ uploads' = st.uploads
               /\ res' = [made |-> TRUE, id |-> NewId(rows),
                          source_type |-> SourceType(arg),
                          category |-> Category(arg.parts)]
       ELSE UNCHANGED <<rows, uploads, res>>
    /\ UNCHANGED <<created, config, pc, local, gate, limiter, provSeq, crashes,
                   hist, arg>>

NextIntake == ScanEntry
SpecIntake == InitIntake /\ [][NextIntake]_vars

\* ------------------------------------ the local transfer's file names
\* Longest filename tried, in characters.
MaxName == 3
\* characters of a name: a plain one, the dot, a path separator, a reserved
\* character that is no separator, and a percent-escaped separator ("%2F")
Chars == {"a", ".", "/", ":", "%2F"}
Names == UNION {[1..k -> Chars] : k \in 0..MaxName}

\* urllib.parse.unquote
Unquote(s) == [k \in DOMAIN s |-> IF s[k] = "%2F" THEN "/" ELSE s[k]]

\* mutant of Sanitize: the path separator is left in place
SanitizeKeepsSlash(s) == [k \in DOMAIN s |-> IF s[k] = ":" THEN "_" ELSE s[k]]

\* re.sub(r'[<>:"/\\|?*]', '_', filename)
Sanitize(s) == [k \in DOMAIN s |-> IF s[k] \in {"/", ":"} THEN "_" ELSE s[k]]

\* _get_download_filename: the content-disposition filename of the HEAD
\* answer, unquoted and sanitized, when there is one; else the name the
\* later sources give (URL path, content type or original filename): given
HeadName(head, fallback) ==
    IF Unquote(head) # <<>> THEN Sanitize(Unquote(head)) ELSE fallback

\* a file name below out_dir: prefix n stands for the leading "<n>_" (0: no
\* such prefix), body for the rest
\* _ensure_downloaded: out_path = out_dir / f"{download_id}_{actual_filename}"
OutPath(i, head, fallback) == [prefix |-> i, body |-> HeadName(head, fallback)]

\* _download_stream: a content-disposition filename of the GET answer that
\* differs from out_path.name replaces the name: out_path.parent / actual
StreamPath(out, get) ==
    LET actual == [prefix |-> 0, body |-> Sanitize(Unquote(get))]
    IN IF actual.body # <<>> /\ actual # out THEN actual ELSE out

\* out_path.stem: the name up to its last dot, unless that dot is the first
\* or the last character of the name
Stem(nm) ==
    LET dots == {k \in DOMAIN nm.body : nm.body[k] = "."}
        last == IF dots = {} THEN 0 ELSE MaxOf(dots)
    IN IF last = 0 \/ last = Len(nm.body) \/ (last = 1 /\ nm.prefix = 0)
       THEN nm
       ELSE [nm EXCEPT !.body = SubSeq(nm.body, 1, last - 1)]

\* "." and "..": paths that name a directory, not a file in out_dir
DotName(nm) == nm.prefix = 0 /\ nm.body \in {<<".">>, <<".", ".">>}

\* entries an archive can hold: two plain files and a directory
ZipEntries == {"f1", "f2", "d1"}
NoPath == [kind |-> "none", name |-> [prefix |-> 0, body |-> <<>>], entry |-> "none"]
NoTransfer == [zip |-> FALSE, contents |-> {}, extracted |-> FALSE]
NoRun == [id |-> 0, head |-> <<>>, get |-> <<>>, fallback |-> <<>>]
\* out_dir before any transfer: no file, no directory
EmptyDisk ==
    [final |-> [i \in Ids |-> NoPath], done |-> {}, files |-> {}, dirs |-> {},
     inside |-> {}, got |-> [i \in Ids |-> NoTransfer]]

\* _download_stream from tmp_path.rename(out_path) on, applied to out_dir as
\* d holds it: files and dirs are the names present, inside the pairs
\* <<directory, entry>>.  zip: the payload is a valid archive holding
\* `contents`; bad: extractall (or the unlink after it) raises.
Unpack(d, i, out, zip, contents, bad) ==
    LET d1 == [d EXCEPT !.files = @ \cup {out}, !.done = @ \cup {i}]
        extract_dir == Stem(out)
        asfile == [kind |-> "file", name |-> out, entry |-> "none"]
        \* extract_dir.mkdir(exist_ok=True) raises when a file has that name
        mkdir_ok == extract_dir \notin d1.files
        d2 == [d1 EXCEPT !.files = @ \ {out},
                         !.dirs = @ \cup {extract_dir},
                         !.inside = @ \cup {<<extract_dir, e>> : e \in contents}]
        extracted_files == {e \in ZipEntries : <<extract_dir, e>> \in d2.inside}
        one == CHOOSE e \in extracted_files : TRUE
    IN IF DotName(out) \/ out \in d.dirs
       THEN [d EXCEPT !.done = @ \cup {i}]     \* rename raises: no artifact
       ELSE IF ~zip
       THEN [d1 EXCEPT !.final[i] = asfile]
       ELSE IF bad \/ ~mkdir_ok
       THEN [d1 EXCEPT !.final[i] = asfile,
                       !.got[i] = [zip |-> TRUE, contents |-> contents,
                                   extracted |-> FALSE]]
       ELSE [d2 EXCEPT !.final[i] =
                          IF Cardinality(extracted_files) = 1 /\ one # "d1"
                          THEN [kind |-> "file", name |-> extract_dir, entry |-> one]
                          ELSE [kind |-> "dir", name |-> extract_dir, entry |-> "none"],
                       !.got[i] = [zip |-> TRUE, contents |-> contents,
                                   extracted |-> TRUE]]

InitTransfer ==
    /\ rows = [i \in Ids |-> Absent]
    /\ uploads = {}
    /\ blackhole = "none"
    /\ created = 0
    /\ max_conc = MaxConcCfg
    /\ pc = "idle"
    /\ cur = 0 /\ item_ref = 0 /\ attempt = 0 /\ got = 0 /\ total = FALSE
    /\ permits = SemSize(max_conc)
    /\ holders = {}
    /\ level = 0
    /\ window = NoCalls
    /\ provSeq = 0
    /\ crashes = 0
    /\ hist = NoHist
    /\ arg = NoRun
    /\ res = EmptyDisk

\* the local transfer of job i, from _get_download_filename to the path
\* _download_stream returns
Transfer(i, head, get, fallback, zip, contents, bad) ==
    /\ i \notin res.done
    /\ arg' = [id |-> i, head |-> head, get |-> get, fallback |-> fallback]
    /\ res' = Unpack(res, i, StreamPath(OutPath(i, head, fallback), get),
                     zip, contents, bad)
    /\ UNCHANGED <<store, config, pc, local, gate, limiter, provSeq, crashes, hist>>

\* original filenames tried: a plain one, and one with a reserved character
Fallbacks == {<<"a">>, <<":", ".", "a">>}
\* one transfer, over every pair of content-disposition filenames
NextName ==
    /\ 1 \notin res.done
    /\ \E head \in Names, get \in Names, fallback \in Fallbacks :
          Transfer(1, head, get, fallback, FALSE, {}, FALSE)
SpecName == InitTransfer /\ [][NextName]_vars

\* content-disposition filenames tried when several jobs share out_dir
PackNames == {<<>>, <<"a", ".", "a">>}
\* one transfer per job into the same out_dir, archives included
NextArtifact ==
    \E i \in Ids, head \in PackNames, get \in PackNames, zip \in BOOLEAN,
       contents \in SUBSET ZipEntries, bad \in BOOLEAN :
        Transfer(i, head, get, <<"a">>, zip, contents, bad)
SpecArtifact == InitTransfer /\ [][NextArtifact]_vars

\* ------------------------------------------- _notify_arrs on its own
\* Download.category: one of the three applications, or None
Categories == Arrs \cup {"none"}

\* mutant of NotifyArrs: only the application the category names is called
NotifyArrsByCategory(cat, cfg, bad) ==
    {a \in Attempted(cfg, bad) : cat = "none" \/ a = cat}

\* _ensure_downloaded: "await self._notify_arrs(str(final_path))": the
\* job's category (cat) is not passed on and _notify_arrs does not read it
NotifyArrs(cat, cfg, bad) == Attempted(cfg, bad)

InitNotify ==
    /\ rows = [i \in Ids |-> Absent]
    /\ uploads = {}
    /\ blackhole = "none"
    /\ created = 0
    /\ max_conc = MaxConcCfg
    /\ pc = "notify"
    /\ cur = 0 /\ item_ref = 0 /\ attempt = 0 /\ got = 0 /\ total = FALSE
    /\ permits = SemSize(max_conc)
    /\ holders = {}
    /\ level = 0
    /\ window = NoCalls
    /\ provSeq = 0
    /\ crashes = 0
    /\ hist = NoHist
    /\ arg \in {[cat |-> c, cfg |-> g, bad |-> b] :
                  c \in Categories, g \in SUBSET Arrs, b \in SUBSET Arrs}
    /\ arg.bad \subseteq arg.cfg
    /\ res = <<>>

\* the notifications of one completed job: res is the set of applications
\* whose scan command was sent
NotifyOne ==
    /\ pc = "notify"
    /\ pc' = "idle"
    /\ res' = [called |-> NotifyArrs(arg.cat, arg.cfg, arg.bad)]
    /\ UNCHANGED <<store, config, local, gate, limiter, provSeq, crashes, hist, arg>>

NextNotify == NotifyOne
SpecNotify == InitNotify /\ [][NextNotify]_vars

\* ------------------------------------- start(), stop() and the loop task
\* Loop tasks created in a run, and calls made of start() and of stop().
MaxTasks == 3
MaxCalls == 3
Tasks == 1..MaxTasks

\* the worker object: state.running; _task (0: None); where each task is
\* ("unborn", at the while test "check", inside the loop "body", "done");
\* calls made so far; a stop() suspended in asyncio.wait; and whether a
\* start() has returned at its guard while running was false
NoLoop == [running |-> FALSE, task |-> 0, at |-> [t \in Tasks |-> "unborn"],
           starts |-> 0, stops |-> 0, waiting |-> FALSE, refused |-> FALSE]

Alive(l) == {t \in Tasks : l.at[t] \in {"check", "body"}}

\* mutant of Refuses: start() always creates a task
RefusesNever(h, at) == FALSE

\* start: "if self._task and not self._task.done(): return"
Refuses(h, at) == h # 0 /\ at[h] # "done"

InitLoop ==
    /\ rows = [i \in Ids |-> Absent]
    /\ uploads = {}
    /\ blackhole = "none"
    /\ created = 0
    /\ max_conc = MaxConcCfg
    /\ pc = "idle"
    /\ cur = 0 /\ item_ref = 0 /\ attempt = 0 /\ got = 0 /\ total = FALSE
    /\ permits = SemSize(max_conc)
    /\ holders = {}
    /\ level = 0
    /\ window = NoCalls
    /\ provSeq = 0
    /\ crashes = 0
    /\ hist = NoHist
    /\ arg = <<>>
    /\ res = NoLoop

\* DownloadWorker.start
Start ==
    /\ res.starts < MaxCalls
    /\ IF Refuses(res.task, res.at)
       THEN res' = [res EXCEPT !.starts = @ + 1,
                               !.refused = @ \/ ~res.running]
       ELSE LET unborn == {t \in Tasks : res.at[t] = "unborn"}
            IN /\ unborn # {}
               /\ res' = [res EXCEPT !.starts = @ + 1,
                                      !.running = TRUE,
                                      !.task = MinOf(unborn),
                                      !.at[MinOf(unborn)] = "check"]
    /\ UNCHANGED <<store, config, pc, local, gate, limiter, provSeq, crashes, hist, arg>>

\* DownloadWorker.stop up to its await: running is cleared, and the call
\* waits for the task when there is one
StopCall ==
    /\ res.stops < MaxCalls
    /\ ~res.waiting
    /\ res' = [res EXCEPT !.stops = @ + 1, !.running = FALSE,
                          !.waiting = res.task # 0]
    /\ UNCHANGED <<store, config, pc, local, gate, limiter, provSeq, crashes, hist, arg>>

\* asyncio.wait([self._task], timeout=5) returns: the task is done, or the
\* five seconds are over while it is still in the loop body
StopReturn ==
    /\ res.waiting
    /\ res.at[res.task] # "check"
    /\ res' = [res EXCEPT !.waiting = FALSE]
    /\ UNCHANGED <<store, config, pc, local, gate, limiter, provSeq, crashes, hist, arg>>

\* _run_loop: "while self.state.running"
LoopCheck(t) ==
    /\ res.at[t] = "check"
    /\ res' = [res EXCEPT !.at[t] = IF res.running THEN "body" ELSE "done"]
    /\ UNCHANGED <<store, config, pc, local, gate, limiter, provSeq, crashes, hist, arg>>

\* _run_loop: one pass of _scan_blackhole, _process_one and the sleep (ok),
\* or an exception out of _scan_blackhole or of _process_one's selecting
\* session, neither of which is inside a try: it ends the task
LoopBody(t, ok) ==
    /\ res.at[t] = "body"
    /\ res' = [res EXCEPT !.at[t] = IF ok THEN "check" ELSE "done"]
    /\ UNCHANGED <<store, config, pc, local, gate, limiter, provSeq, crashes, hist, arg>>

NextLoop ==
    \/ Start
    \/ StopCall
    \/ StopReturn
    \/ \E t \in Tasks : LoopCheck(t)
    \/ \E t \in Tasks, ok \in BOOLEAN : LoopBody(t, ok)
SpecLoop == InitLoop /\ [][NextLoop]_vars

\* the scheduling the code guarantees: the loop task keeps running (every
\* await of the worker returns, with whatever answer) and time passes
SpecLive == Init /\ [][Next]_vars /\ WF_vars(Worker) /\ WF_vars(Elapse)

\* the same program on a ticking clock, for the limiter's timing
NextRate == Worker \/ Environment \/ Crash \/ Advance
SpecRate == Init /\ [][NextRate]_vars

Spec == Init /\ [][Next]_vars

\* ------------------------------------------------------------------ claims
NonTerminal == {"queued", "submitting", "submitted", "downloading"}
Terminal == {"completed", "failed", "cancelled"}

\* the edges of the job state machine
Edge(a, b) ==
    \/ <<a, b>> \in {<<"queued", "submitting">>, <<"submitting", "submitted">>,
                     <<"submitted", "downloading">>, <<"downloading", "completed">>}
    \/ a \in NonTerminal /\ b \in {"failed", "cancelled"}

\* C1: every change of a job's status, under any interleaving of worker
\* steps with uploads, cancel and delete requests, follows one of the edges
\* queued->submitting, submitting->submitted, submitted->downloading,
\* downloading->completed, non-terminal->failed, non-terminal->cancelled.
C1_StatusFollowsEdges ==
    [][\A j \in Ids :
          (Exists(rows, j) /\ Exists(rows', j) /\ rows'[j].status # rows[j].status)
          => Edge(rows[j].status, rows'[j].status)]_vars

\* C2: once a cancel request has set a job's status to cancelled (in
\* particular while it was downloading), no later step -- progress update,
\* transfer finish, completion write, error handler -- changes that status.
C2_CancelledIsFinal ==
    [][\A j \in Ids :
          (Exists(rows, j) /\ rows[j].status = "cancelled" /\ Exists(rows', j))
          => rows'[j].status = "cancelled"]_vars
\* a transfer was cancelled while its job was downloading, the worker has
\* since aborted it and gone back to the loop, and the job is cancelled
C2_Witness ==
    \E j \in Ids : hist.cancelled = j /\ pc = "idle" /\ rows[j].status = "cancelled"

\* C3: after a cancel request has set the status of the downloading job to
\* cancelled, its transfer writes at most one further chunk.
C3_AtMostOneLateChunk == hist.late <= 1

\* C4: while a job is not in a terminal status its persisted progress never
\* decreases from one store state to the next.
C4_ProgressMonotone ==
    [][\A j \in Ids :
          (Exists(rows, j) /\ Exists(rows', j) /\ rows[j].status \in NonTerminal)
          => rows'[j].progress >= rows[j].progress]_vars
\* a job that polling took to the cap of 95 is downloading, and a streaming
\* progress update (54 or 99 would be written at 10) has kept the 95
C4_Witness ==
    \E j \in Ids : /\ rows[j].status = "downloading"
                   /\ rows[j].progress = 95
                   /\ rows[j].speed

\* C5: the jobs inside the local transfer never outnumber the gate's size
\* N = max(1, max_concurrent_local_downloads), and N is at least 1.
C5_GateBound ==
    /\ SemSize(max_conc) >= 1
    /\ Cardinality(holders) <= SemSize(max_conc)
    /\ permits = SemSize(max_conc) - Cardinality(holders)
\* the gate is full: as many transfers hold a slot as it has
C5_Witness ==
    /\ holders # {}
    /\ Cardinality(holders) = SemSize(max_conc)
    /\ pc = "stream"

\* C6: in every rolling window of one limiter period the worker starts at
\* most RateLimit Provider Client operations.
C6_RateWindow == WindowCalls <= RateLimit

\* C8: while a transfer is streaming, the scheduler loop can tick and claim
\* or poll another eligible job.
C8_TickDuringTransfer ==
    (pc = "stream" /\ \E j \in Ids : j # cur /\ rows[j].status \in {"queued", "submitted"})
    => ENABLED (\E key, mv, later \in BOOLEAN : Tick(key, mv, later))

\* C7: a submitted job whose provider never reports readiness does not
\* starve a queued job with a higher id: that job is eventually claimed
\* (or otherwise leaves queued).
C7_NoStarvation ==
    \A i, j \in Ids :
        (i < j) =>
            ((rows[i].status = "submitted" /\ rows[j].status = "queued")
                ~> (rows[j].status # "queued"))

\* C9: no job stays forever in submitting or downloading, a process crash
\* and restart included: the loop picks it up again and drives it on.
C9_NoJobStuck ==
    \A j \in Ids :
        (rows[j].status \in {"submitting", "downloading"})
            ~> (rows[j].status \notin {"submitting", "downloading"})

\* C10: the submission phase run on a job that already has a provider_ref
\* makes no submit call, raises nothing, leaves provider_ref (and the error
\* field) as they were and leaves the job submitted; a second run changes
\* nothing more.
C10_SubmitIdempotent ==
    [][\A j \in Ids :
        (cur' = j /\ rows[j].ref # 0 /\ rows[j].status \in {"submitting", "submitted"})
            => /\ provSeq' = provSeq
               /\ pc' = "poll"
               /\ rows'[j].ref = rows[j].ref
               /\ rows'[j].error = rows[j].error
               /\ rows'[j].status = "submitted"
               /\ \A key \in BOOLEAN :
                     LET again == EsRead(rows', j, key, uploads')
                     IN again.out = "return" /\ again.rows = rows']_vars
C10_Witness ==
    \E j \in Ids :
        /\ cur = j /\ pc = "poll" /\ hist.entered = "submitting"
        /\ rows[j].status = "submitted" /\ rows[j].ref \in 1..MaxRef
        /\ provSeq = 0

\* a step of the worker task (the endpoints and the clock leave pc and got)
WorkerStep == pc' # pc \/ got' # got

\* C11: the error handler writes failed, with an error text, only over a
\* freshly re-read status that is neither completed nor cancelled; a job
\* that is completed or cancelled when the error is handled keeps its
\* status and gets no error.
C11_HandlerKeepsTerminal ==
    [][\A j \in Ids :
          /\ (Exists(rows, j) /\ Exists(rows', j) /\ rows'[j].status = "failed"
                /\ rows[j].status # "failed")
             => (rows[j].status \notin {"completed", "cancelled"} /\ rows'[j].error)
          /\ (Exists(rows, j) /\ Exists(rows', j)
                /\ rows[j].status \in {"completed", "cancelled"})
             => (rows'[j].status = rows[j].status /\ ~rows'[j].error)]_vars
\* the handler ran on a job it found completed (the cleanup raised after
\* the completion write) and left it completed without an error
C11_Witness ==
    \E j \in Ids : /\ hist.kept = j /\ pc = "idle"
                   /\ rows[j].status = "completed" /\ ~rows[j].error

\* C12: a failure while one job is processed changes the status, progress
\* and error of that job only: the row the handler marks failed is the job
\* the worker claimed, and no other row changes in that step.
C12_FailureIsLocal ==
    [][\A j \in Ids :
          (WorkerStep /\ pc # "idle" /\ Exists(rows', j)
              /\ rows'[j].status = "failed" /\ rows[j].status # "failed")
          => /\ j = cur
             /\ ~hist.deleted
             /\ \A k \in Ids \ {j} : rows'[k] = rows[k]]_vars

\* C13: a job-description file dropped in the intake directory makes exactly
\* one job row, over any number of scanner passes and within one pass.
C13_OneJobPerFile == hist.ingested <= 1

\* the recognized category nearest to the file: the last matching part
RECURSIVE NearestFrom(_, _)
NearestFrom(parts, k) ==
    IF k = 0 THEN "none"
    ELSE IF Lower(parts[k]) \in {"radarr", "sonarr", "whisparr"}
    THEN Lower(parts[k])
    ELSE NearestFrom(parts, k - 1)

\* C14: the category of a job made by the scanner is the name of the
\* recognized ancestor directory nearest to the file, none if there is
\* none, also when several ancestors carry different category names.
C14_NearestCategory ==
    res.made => res.category = NearestFrom(arg.parts, Len(arg.parts))

\* C15: the scanner makes a job only of a regular non-dotfile with
\* extension .torrent or .nzb; the job is queued with progress 0, its
\* source_type follows the extension, and its content path is recorded
\* under upload_path:{id}.
C15_IntakeJob ==
    res.made =>
        /\ arg.regular /\ ~arg.dot
        /\ Lower(arg.suffix) \in {".torrent", ".nzb"}
        /\ rows[res.id].status = "queued" /\ rows[res.id].progress = 0
        /\ res.source_type = (IF Lower(arg.suffix) = ".nzb" THEN "nzb" ELSE "torrent")
        /\ res.id \in uploads
\* a job was made of an .nzb file below a category directory
C15_Witness ==
    /\ res.made /\ arg.suffix = ".nzb" /\ res.source_type = "nzb"
    /\ Len(arg.parts) > 0 /\ rows[res.id].status = "queued"

\* C16: the final on-disk name of every transferred artifact carries the
\* job's id as prefix, so the artifacts of two distinct jobs never have the
\* same path, whichever source supplied the name.
C16_IdPrefixed ==
    /\ \A i \in Ids : res.final[i].kind # "none" => res.final[i].name.prefix = i
    /\ \A i, j \in Ids :
          (i # j /\ res.final[i].kind # "none" /\ res.final[j].kind # "none")
              => res.final[i] # res.final[j]

C18_ZipArtifact ==
    \A i \in Ids :
        (res.got[i].zip /\ res.final[i].kind # "none") =>
            IF res.got[i].extracted
            THEN IF Cardinality(res.got[i].contents) = 1 /\ res.got[i].contents # {"d1"}
                 THEN /\ res.final[i].kind = "file"
                      /\ res.final[i].entry \in res.got[i].contents
                 ELSE res.final[i].kind = "dir"
            ELSE res.final[i].kind = "file" /\ res.final[i].entry = "none"

\* C19: the poll phase re-reads the job before every status query: the
\* worker starts waiting for a query only on a row it has just found present
\* and not cancelled, and when the re-read after the sleep finds the job
\* cancelled or gone the phase returns without another query.
C19_PollStopsOnCancel ==
    [][/\ (pc' = "poll" /\ pc # "poll")
           => (Exists(rows', cur') /\ rows'[cur'].status # "cancelled")
       /\ (pc = "sleep" /\ WorkerStep
              /\ (~Exists(rows, cur) \/ rows[cur].status = "cancelled"))
           => (pc' = "idle" /\ window'[1] <= window[1])]_vars
\* a job was cancelled during the sleep between two queries; the re-read
\* ended the phase and the worker is back in the loop
C19_Witness ==
    \E j \in Ids : /\ hist.stopped = j /\ pc = "idle"
                   /\ rows[j].status = "cancelled" /\ rows[j].ref # 0

\* C20: once the row of the job in progress has been deleted, the worker
\* writes no row under that id (it neither recreates the row nor marks a
\* job failed) and goes back to the loop.
C20_DeletedRowAbandoned ==
    [][(WorkerStep /\ pc # "idle" /\ hist.deleted) => rows'[cur] = rows[cur]]_vars

\* a row the tick has just claimed, or failed at once, in this step
Taken(j) ==
    /\ rows'[j].status \in {"submitting", "failed"}
    /\ rows'[j].status # rows[j].status

\* C21: the job a tick chooses has the lowest id among the queued and
\* submitted jobs, a tick chooses at most one job, and a queued job is
\* submitting in the store state in which the tick leaves it.
C21_LowestIdFirst ==
    [][pc = "idle" =>
          /\ \A j \in Ids :
                Taken(j) =>
                   /\ \A k \in Ids : k < j => rows'[k].status \notin {"queued", "submitted"}
                   /\ \A k \in Ids \ {j} : ~Taken(k)
                   /\ pc' # "idle" => cur' = j
          /\ pc' \in {"submit", "poll"} =>
                /\ \A k \in Ids : k < cur' => rows'[k].status \notin {"queued", "submitted"}
                /\ rows'[cur'].status = (IF pc' = "submit" THEN "submitting" ELSE "submitted")]_vars
\* job 1 was chosen and is being submitted while job 2 waits queued
C21_Witness ==
    /\ pc = "submit" /\ cur = 1 /\ rows[1].status = "submitting"
    /\ rows[2].status = "queued"

\* C22: one pass of the poll phase makes at most PollAttempts status
\* queries; a pass that ends with its budget spent changes no row, and the
\* job it polled is still submitted without a download URL, so that a later
\* tick selects it again.
C22_PollBudget ==
    /\ [](pc \in {"poll", "sleep"} => attempt < PollAttempts)
    /\ [][(pc = "sleep" /\ pc' = "idle" /\ crashes' = crashes)
             => /\ rows' = rows
                /\ (~PollStop(rows, cur) /\ ~hist.deleted)
                      => /\ attempt + 1 = PollAttempts
                         /\ rows'[cur].status = "submitted"
                         /\ ~rows'[cur].url
                         /\ Select(rows') # 0]_vars
\* a pass has spent its budget: the worker is idle again, no crash and no
\* cancellation ended the pass, and the job is submitted with no URL
C22_Witness ==
    /\ crashes = 0 /\ pc = "idle" /\ hist.stopped = 0 /\ ~hist.deleted
    /\ \E j \in Ids : /\ rows[j].status = "submitted" /\ rows[j].ref # 0
                      /\ ~rows[j].url

\* C23: once a job is written completed, no failure of a notification, of
\* the cleanup or of the provider deletion changes its status: while its
\* row exists it stays completed with progress 100; and a notification
\* that fails leaves no configured notification after it unattempted.
C23_CompletionSurvives ==
    [][/\ \A j \in Ids :
             (rows[j].status = "completed" /\ Exists(rows', j))
             => (rows'[j].status = "completed" /\ rows'[j].progress = 100)
       /\ hist'.skipped = {}]_vars
\* a notification failed and a later one was attempted all the same, the
\* cleanup raised at the provider deletion, and the job is still completed
C23_Witness ==
    \E j \in Ids : /\ pc = "idle" /\ hist.followed /\ hist.asked /\ hist.kept = j
                   /\ rows[j].status = "completed" /\ rows[j].progress = 100

\* C24: when the worker has completed a job and the notifications have been
\* attempted, the cleanup that follows removes the job's settings entries,
\* whether or not a notification failed.
C24_EntriesRemoved ==
    [][(pc = "notify" /\ pc' = "idle" /\ crashes' = crashes)
          => cur \notin uploads']_vars
\* a completed job whose entry is gone after notifications of which one failed
C24_Witness ==
    \E j \in Ids : /\ pc = "idle" /\ hist.followed /\ ~hist.asked
                   /\ rows[j].status = "completed" /\ rows[j].local_path
                   /\ j \notin uploads /\ crashes = 0

\* C26: when provider-side deletion is configured and a job with a provider
\* reference completes, the cleanup sends exactly one delete instruction.
C26_OneProviderDelete == hist.asked => hist.calls = 1

\* C25: the settings entries of a job that has stopped being processed in
\* a terminal status (completed, failed or cancelled) are eventually
\* deleted.
C25_PointersDeleted ==
    \A j \in Ids :
        (rows[j].status \in Terminal /\ j \in uploads /\ cur # j)
        ~> (j \notin uploads)

\* C27: while a job is submitted, and so not yet confirmed ready, its stored
\* progress stays below 95, whatever progress the not-ready replies report.
C27_BelowReadyPlateau ==
    \A j \in Ids : rows[j].status = "submitted" => rows[j].progress < 95

\* C28: once a transfer has ended, however it ended, the job has no
\* current_speed_bps: a completed, failed or cancelled job whose transfer
\* the worker is not running has none.
C28_SpeedCleared ==
    \A j \in Ids :
        (rows[j].status \in Terminal /\ ~(cur = j /\ pc \in {"open", "stream"}))
        => ~rows[j].speed

\* C29: a job has a local_path only if its status is completed, and an
\* error only if its status is failed.
C29_PathAndErrorByStatus ==
    \A j \in Ids : /\ rows[j].local_path => rows[j].status = "completed"
                   /\ rows[j].error => rows[j].status = "failed"
\* one job completed with its local_path, another failed with its error
C29_Witness ==
    \E i, j \in Ids : /\ rows[i].status = "completed" /\ rows[i].local_path
                      /\ rows[j].status = "failed" /\ rows[j].error

\* C30: progress is always within 0..100 and is 100 exactly when the job is
\* completed: the poll phase stores at most 95, the transfer at most 99.
C30_ProgressRange ==
    \A j \in Ids : /\ rows[j].progress \in 0..100
                   /\ rows[j].progress = 100 <=> rows[j].status = "completed"
\* the transfer has stored its highest figure and the job is not completed;
\* the other job is completed at 100
C30_Witness ==
    \E i, j \in Ids : /\ rows[i].status = "downloading" /\ rows[i].progress = 99
                      /\ rows[j].status = "completed" /\ rows[j].progress = 100

\* C36: job ids are never reused: a newly created job gets an id greater
\* than the id of every job created before it, deleted jobs included.
C36_IdsNeverReused ==
    [][\A j \in Ids :
          (~Exists(rows, j) /\ Exists(rows', j)) => j > hist.issued]_vars

\* the jobs the store shows as being worked on
InFlight == {j \in Ids : rows[j].status \in {"submitting", "downloading"}}

\* C39: with the single worker and no crash, at most one job is submitting
\* or downloading at any instant, and when a tick has ended no job is: the
\* job the tick processed is submitted, completed, failed or cancelled, or
\* its row is gone.
C39_OneInFlight ==
    crashes = 0 => /\ Cardinality(InFlight) <= 1
                   /\ pc = "idle" => InFlight = {}
\* the worker is transferring job 1 while job 2 waits: one job in flight
C39_Witness ==
    /\ crashes = 0 /\ pc = "stream" /\ cur = 1 /\ got > 0
    /\ rows[1].status = "downloading" /\ rows[2].status = "queued"

\* C40: a submitted or downloading job has a provider_ref, a downloading
\* or completed job has a provider_download_url, and a provider_ref once
\* assigned to a job is never changed or cleared while the job exists.
C40_RefAndUrl ==
    /\ [](\A j \in Ids :
            /\ rows[j].status \in {"submitted", "downloading"} => rows[j].ref # 0
            /\ rows[j].status \in {"downloading", "completed"} => rows[j].url)
    /\ [][\A j \in Ids :
            (rows[j].ref # 0 /\ Exists(rows', j)) => rows'[j].ref = rows[j].ref]_vars

\* C31: the worker starts the notifications only in the step that has
\* written completed, progress 100 and the final local_path; it removes
\* settings entries (the cleanup) only in the step that follows the
\* notification attempts; a pass that ends any other way, with the job
\* failed or cancelled, notifies nothing and cleans nothing up.
C31_NotifyThenCleanup ==
    [][/\ (pc' = "notify" /\ pc # "notify")
            => /\ rows'[cur'].status = "completed"
               /\ rows'[cur'].progress = 100
               /\ rows'[cur'].local_path
       /\ (WorkerStep /\ ~(uploads \subseteq uploads')) => pc = "notify"
       /\ (WorkerStep /\ pc # "notify")
            => /\ uploads \subseteq uploads'
               /\ pc # "idle" => (hist'.followed = hist.followed /\ hist'.asked = hist.asked)]_vars
\* the completion is in the store, the notifications are under way and the
\* cleanup has not yet removed the job's entry
C31_Witness ==
    /\ pc = "notify" /\ cur \in uploads
    /\ rows[cur].status = "completed" /\ rows[cur].progress = 100
    /\ rows[cur].local_path

\* C32: when a job with a category completes, only the application its
\* category names is notified.
C32_OnlyCategoryNotified ==
    (pc = "idle" /\ arg.cat # "none") => res.called \subseteq {arg.cat}
\* C32, as the code has it: every configured application is notified,
\* whatever the job's category.
C32_AllConfiguredNotified ==
    pc = "idle" => res.called = arg.cfg
\* a job of category radarr has completed and sonarr was notified of it
C32_Witness ==
    /\ pc = "idle" /\ arg.cat = "radarr" /\ arg.cfg = {"sonarr", "radarr"}
    /\ "sonarr" \in res.called

\* C35: when the job a tick has claimed has no provider_ref and the api key
\* is absent or the job's upload is missing, no provider call is made, the
\* tick ends with the job failed and an error text; and a failed job is
\* never selected again nor changed while its row exists.
C35_FailsWithoutCall ==
    [][/\ \A key, mv, later \in BOOLEAN :
             LET sc == ScanPass(rows, uploads, blackhole, mv, later)
                 i == Select(sc.rows)
             IN (/\ Tick(key, mv, later)
                 /\ i # 0
                 /\ sc.rows[i].ref = 0
                 /\ ~key \/ i \notin sc.uploads)
                => /\ window' = window /\ level' = level /\ provSeq' = provSeq
                   /\ pc' = "idle"
                   /\ rows'[i].status = "failed" /\ rows'[i].error
       /\ \A j \in Ids :
             (rows[j].status = "failed" /\ Exists(rows', j))
             => (rows'[j] = rows[j] /\ Select(rows') # j)]_vars
\* a job whose upload is in place failed in its first tick, without any
\* provider call having been made
C35_Witness ==
    \E j \in Ids : /\ pc = "idle" /\ crashes = 0 /\ provSeq = 0 /\ level = 0
                   /\ j \in uploads /\ rows[j].ref = 0 /\ rows[j].progress = 0
                   /\ rows[j].status = "failed" /\ rows[j].error
                   /\ \A k \in Ids \ {j} : ~Exists(rows, k)

\* C33: no recognized file stays in the intake directory for ever: whether
\* or not it can be read or relocated, after finitely many passes it has
\* been moved out of the intake directory or deleted.
C33_NoEndlessRevisit ==
    (blackhole \in {"inbox", "unreadable"}) ~> (blackhole \notin {"inbox", "unreadable"})

\* the step in which the per-chunk re-read finds the job cancelled
CancelAbort ==
    /\ pc = "stream" /\ got < NumChunks /\ WorkerStep /\ crashes' = crashes
    /\ Exists(rows, cur) /\ rows[cur].status = "cancelled"

\* C34: when the per-chunk re-read finds the job cancelled, the transfer
\* ends without a final artifact and the partial ".part" file is removed.
C34_NoPartialLeft ==
    [][CancelAbort => /\ pc' = "idle"
                      /\ ~rows'[cur].local_path
                      /\ cur \notin hist'.parts]_vars
\* C34, as the code has it: when the per-chunk re-read finds the job
\* cancelled, the transfer ends without a final artifact, the job stays
\* cancelled, and the partial ".part" file stays in the download folder.
C34_PartialKept ==
    [][CancelAbort => /\ pc' = "idle"
                      /\ rows'[cur].status = "cancelled"
                      /\ ~rows'[cur].local_path
                      /\ cur \in hist'.parts]_vars
\* a transfer was aborted by a cancellation after a chunk had been written:
\* the job is cancelled, has no artifact, and its partial file is there
C34_Witness ==
    \E j \in Ids : /\ pc = "idle" /\ crashes = 0 /\ hist.kept = j /\ hist.cancelled = j
                   /\ rows[j].status = "cancelled" /\ ~rows[j].local_path
                   /\ j \in hist.parts

\* C37: over any sequence of start() and stop() calls, at most one loop
\* task is alive at any instant.
C37_OneLoopTask == Cardinality(Alive(res)) <= 1
\* start() was called while the loop stopped by stop() was still inside its
\* pass, after stop()'s wait had timed out: the old task is the only one
C37_Witness ==
    /\ res.refused /\ ~res.running /\ ~res.waiting /\ res.stops > 0
    /\ Alive(res) = {res.task} /\ res.at[res.task] = "body"

\* C38: while the running flag is true, the loop task is alive.
C38_RunningMeansAlive == res.running => Alive(res) # {}
====
